---- MODULE Spec2Model ----
(***************************************************************************)
(* Model of chromeExtensionAsync's execute-async-function.js:              *)
(*   chrome.tabs.executeAsyncFunction (inject a script, wait for the       *)
(*   runtime message carrying its asyncFuncID), and                        *)
(*   chrome.tabs.createAndWait / chrome.tabs.reloadAndWait (wait for the   *)
(*   onUpdated event with status 'complete').                              *)
(*                                                                         *)
(* The file holds two versions of executeAsyncFunction; the second one     *)
(* (lines 112-258, promisifyChromeEvent) is the one left installed and the *)
(* one modelled here.                                                      *)
(*                                                                         *)
(* The extension page is single threaded: a host callback or event         *)
(* handler runs to completion together with the promise continuations it   *)
(* makes runnable, so each action below is one host task.                  *)
(*                                                                         *)
(* Further parts, each with its own variables and specification:           *)
(*   StepSpec  the dispatch of one onMessage event taken statement by      *)
(*             statement through the listener of promisifyChromeEvent;     *)
(*   PromSpec  promisify, the wrapper that turns a Chrome API function     *)
(*             with a callback into one that returns a promise;            *)
(*   PollSpec  the polling versions of executeAsyncFunction: the first,    *)
(*             with no id and no finally block in its wrapper, and the     *)
(*             one with the id; both poll for the message with a timeout.  *)
(***************************************************************************)
EXTENDS Integers, FiniteSets, Sequences, TLC

\* ------------------------------------------------------------ bounds
\* number of executeAsyncFunction calls made by the extension page
NumCalls == 2
\* number of tab ids the browser hands out
NumTabs == 2
\* number of createAndWait / reloadAndWait calls
NumWaits == 2

\* number of calls of promisified functions
NumPromisified == 2
\* number of times the host invokes the callback of one such call
MaxCallbacks == 2

\* how many details objects the caller holds
NumDetails == 2
\* how many calls the caller makes one after the other
MaxSuccessive == 3
\* how many times addAsyncWrappers is called for the API object
MaxWrapCalls == 2
\* how many pairs of promises wait for a message side by side
NumPairs == 2
\* how many events chrome.runtime.onMessage dispatches to them
MaxMessages == 3
\* how many bits the fraction of a floating-point number in [1, 2) holds here (the
\* values of Math.random() have one bit more, so that 1 + r is rounded)
FractionBits == 16
\* how many poll periods of the clock of the polling versions are told apart
MaxTime == 1

Calls == 1..NumCalls
\* sample values of the random 4-char id
Tokens == {"8000", "c000"}
Tabs == 1..NumTabs
Waits == 1..NumWaits

\* ------------------------------------------------------------ JavaScript values
Undefined == [t |-> "undefined"]
Null == [t |-> "null"]
Num(n) == [t |-> "number", n |-> n]
Str(s) == [t |-> "string", s |-> s]
ErrorObj(m, st) == [t |-> "Error", message |-> Str(m), stack |-> Str(st)]

\* JavaScript truthiness of the values used here (objects are truthy)
Truthy(v) == v.t \notin {"undefined", "null"}

\* the values a unit of work resolves with, undefined included
Values == {Num(1), Num(2), Undefined}
\* the values a unit of work throws
Thrown == {ErrorObj("boom", "at page"), Str("boom"), Null, Undefined}
\* how the unit of work injected in the tab ends
Works == [kind : {"resolve"}, value : Values] \cup [kind : {"throw"}, value : Thrown]

\* the message a thrown value carries, as the developer wrote it
OriginalMessage(x) == IF x.t = "Error" THEN x.message ELSE x

\* the action argument of executeAsyncFunction
Actions ==
    {[type |-> "function"], [type |-> "string"], [type |-> "undefined"]}
        \cup [type : {"object"}, code : BOOLEAN, file : BOOLEAN]

\* a promise that has not been resolved
Pending == [t |-> "pending"]
\* the promise returned by an async function
Resolved(v) == [state |-> "resolved", value |-> v]
Rejected(e) == [state |-> "rejected", error |-> e]
NotSettled == [state |-> "pending"]

VARIABLES
    \* executeAsyncFunction, per call
    pc,         \* where the async function is: idle, injecting, awaitMessage, done
    id,         \* the asyncFuncID generated for the call ("" before the call)
    script,     \* chrome.tabs.executeScript for the call: none, requested, failed, running, finished
    promise,    \* the promise of promisifyChromeEvent(chrome.runtime.onMessage, id)
    result,     \* the promise returned by executeAsyncFunction
    work,       \* how the call's unit of work ended in the tab (history)
    sent,       \* number of chrome.runtime.sendMessage calls of the call's wrapper
    \* chrome.runtime.onMessage
    listeners,  \* calls whose listener is registered on chrome.runtime.onMessage
    channel,    \* messages sent by injected wrappers, not yet dispatched
    \* createAndWait / reloadAndWait, per wait
    wpc,        \* idle, creating, created, reloading, reloaded, waiting, done
    wop,        \* the operation called: none, create, reload
    wtab,       \* the tab id the wait is about (0 when not known yet)
    wignored,   \* whether the wait's listener has let an event of its tab pass (history)
    wresult,    \* the promise returned by createAndWait / reloadAndWait
    \* chrome.tabs
    updListeners, \* waits whose listener is registered on chrome.tabs.onUpdated
    tabState,   \* absent, loading, complete, removed, replaced
    \* promisify, per call of a promisified function
    ppc,        \* idle, called (f returned), threw (f threw)
    pprom,      \* the promise the promisified function returned
    pfirst,     \* the first thing that happened in the call: a callback or a throw (history)
    pevents,    \* number of times the callback has been invoked
    \* one dispatch of chrome.runtime.onMessage, statement by statement
    dispatching, \* the message being dispatched (NoRequest between dispatches)
    todo,       \* listeners the dispatch has still to invoke
    invoked,    \* listeners the dispatch has invoked and that have returned
    lpc,        \* per call: the statement its listener is at (0: not running)
    \* the first polling variant of executeAsyncFunction, per call
    qversion,   \* the version of the file that is installed
    qpc,        \* idle, injecting, polling, done
    qid,        \* the asyncFuncID generated for the call ("" in the first version)
    qscript,    \* chrome.tabs.executeScript for the call: none, requested, failed, running, finished
    qtimeout,   \* the timeout parameter, in ms
    qstart,     \* start, set when the injection is acknowledged
    qtimeoutAt, \* timeoutAt, set when the injection is acknowledged
    qwake,      \* the time at which wait(50) lets the loop go on
    qmessaged,  \* the messaged flag of the call's closure
    qmessage,   \* the message variable of the call's closure
    qresult,    \* the promise the call returned
    qsent,      \* number of chrome.runtime.sendMessage calls of the call's wrapper
    qlisteners, \* calls whose listener is registered on chrome.runtime.onMessage
    qchannel,   \* messages sent by injected wrappers, not yet dispatched
    now,        \* performance.now(), in ms
    \* the details objects the caller passes to executeAsyncFunction
    detailsCode, \* per details object: its code property
    injections, \* the calls made, in order: the details passed, the id, the code injected
    \* addAsyncWrappers
    callbackApi, \* the API object: its member under each name (Null: there is no such API)
    apiOriginal, \* the API object as it was before any call (history)
    apiKnown,   \* the names passed as callbackFunctions in the calls made (history)
    apiCalls,   \* number of calls made
    \* promisifyRuntimeMessage and promisifyChromeEvent side by side, per pair of promises
    pairId,     \* the id both functions were called with ("" before they are called)
    rmListening, \* whether the listener of promisifyRuntimeMessage(id) is registered
    rmPromise,  \* the promise promisifyRuntimeMessage(id) returned
    ceListening, \* whether the listener of promisifyChromeEvent(onMessage, id) is registered
    cePromise,  \* the promise promisifyChromeEvent(onMessage, id) returned
    dispatched, \* number of events chrome.runtime.onMessage has dispatched
    \* the generation of the id
    random,     \* the value Math.random() returns, in units of 2^-(FractionBits + 1)
    generated   \* the id generated from it, a sequence of characters (<<>> before)

execVars == <<pc, id, script, promise, result, work, sent, listeners, channel>>
tabVars == <<wpc, wop, wtab, wignored, wresult, updListeners, tabState>>
\* what the actions of executeAsyncFunction, and of the tab waits, leave alone
promVars == <<ppc, pprom, pfirst, pevents>>
stepVars == <<dispatching, todo, invoked, lpc>>
pollVars == <<qversion, qpc, qid, qscript, qtimeout, qstart, qtimeoutAt, qwake, qmessaged,
              qmessage, qresult, qsent, qlisteners, qchannel, now>>
detailsVars == <<detailsCode, injections>>
apiVars == <<callbackApi, apiOriginal, apiKnown, apiCalls>>
pairVars == <<pairId, rmListening, rmPromise, ceListening, cePromise, dispatched>>
tokenVars == <<random, generated>>
nonExecVars == <<tabVars, promVars, stepVars, pollVars, detailsVars, apiVars, pairVars, tokenVars>>
nonTabVars == <<execVars, promVars, stepVars, pollVars, detailsVars, apiVars, pairVars, tokenVars>>
nonPromVars == <<execVars, tabVars, stepVars, pollVars, detailsVars, apiVars, pairVars, tokenVars>>
nonPollVars == <<execVars, tabVars, promVars, stepVars, detailsVars, apiVars, pairVars, tokenVars>>
nonDetailsVars == <<execVars, tabVars, promVars, stepVars, pollVars, apiVars, pairVars, tokenVars>>
nonApiVars == <<execVars, tabVars, promVars, stepVars, pollVars, detailsVars, pairVars, tokenVars>>
nonPairVars == <<execVars, tabVars, promVars, stepVars, pollVars, detailsVars, apiVars, tokenVars>>
nonTokenVars == <<execVars, tabVars, promVars, stepVars, pollVars, detailsVars, apiVars, pairVars>>
vars == <<execVars, tabVars, promVars, stepVars, pollVars, detailsVars, apiVars, pairVars, tokenVars>>

NoWork == [kind |-> "none"]

ExecInit ==
    /\ pc = [c \in Calls |-> "idle"]
    /\ id = [c \in Calls |-> ""]
    /\ script = [c \in Calls |-> "none"]
    /\ promise = [c \in Calls |-> Pending]
    /\ result = [c \in Calls |-> NotSettled]
    /\ work = [c \in Calls |-> NoWork]
    /\ sent = [c \in Calls |-> 0]
    /\ listeners = {}
    /\ channel = {}

TabInit ==
    /\ wpc = [w \in Waits |-> "idle"]
    /\ wop = [w \in Waits |-> "none"]
    /\ wtab = [w \in Waits |-> 0]
    /\ wignored = [w \in Waits |-> FALSE]
    /\ wresult = [w \in Waits |-> NotSettled]
    /\ updListeners = {}
    /\ tabState = [t \in Tabs |-> "absent"]

\* ------------------------------------------------------------ setupDetails
\* setupDetails with the file test merged into the code test
setupDetails_fileAsCode(action) ==
    IF action.type \in {"function", "string"} THEN "ok"
    ELSE IF action.type = "undefined" THEN "TypeError"
    ELSE IF action.code \/ action.file THEN "ok"
    ELSE "shape"

\* "ok" when setupDetails returns the execution details, else the error it throws
setupDetails(action) ==
    IF action.type \in {"function", "string"} THEN "ok"
    ELSE IF action.type = "undefined" THEN "TypeError"
    ELSE IF action.code THEN "ok"
    ELSE IF action.file THEN "file"
    ELSE "shape"

\* x.p as the catch block of the wrapper reads it (x is not null or undefined)
Prop(x, p) == IF x.t = "Error" THEN x[p] ELSE Undefined

\* the message the injected wrapper sends when the unit of work ends as w
wrapAsyncSendMessage(token, w) ==
    IF w.kind = "resolve"
    THEN [t |-> "object", asyncFuncID |-> token, content |-> w.value, error |-> Undefined]
    ELSE IF w.value \in {Null, Undefined}
    \* x.message throws a TypeError in the catch block: result.error is never
    \* assigned, and the finally block still sends the result
    THEN [t |-> "object", asyncFuncID |-> token, content |-> Undefined, error |-> Undefined]
    ELSE [t |-> "object", asyncFuncID |-> token, content |-> Undefined,
          error |-> [t |-> "object", message |-> Prop(w.value, "message"),
                     stack |-> Prop(w.value, "stack")]]

\* ------------------------------------------------------------ promisifyChromeEvent
\* the test without the comparison of the ids
MessageMatches_noIdTest(request, token) == Truthy(request)

\* the test of the onMessage branch of the listener
MessageMatches(request, token) ==
    /\ Truthy(request)
    /\ request.asyncFuncID = token

\* the listeners that remove themselves and resolve when request is dispatched
MessageSettles(request) ==
    {c \in listeners : MessageMatches(request, id[c])}

\* the listeners that matched are left registered
RemoveMessageListeners_none(request) == listeners

\* chromeEvent.removeListener(listener) of the listeners that matched (line 196)
RemoveMessageListeners(request) == listeners \ MessageSettles(request)

\* resolve() of a promise: a settled promise keeps its value
Resolve(p, v) == IF p = Pending THEN v ELSE p

\* ------------------------------------------------------------ executeAsyncFunction
\* the outcome with the remote stack left out of the error
Translate_messageOnly(m) ==
    IF Truthy(m.error)
    THEN Rejected([kind |-> "remote", message |-> m.error.message, stack |-> Undefined])
    ELSE Resolved(m.content)

\* lines 233-239: the outcome of the call for the message received
Translate(m) ==
    IF Truthy(m.error)
    THEN Rejected([kind |-> "remote", message |-> m.error.message, stack |-> m.error.stack])
    ELSE Resolved(m.content)

\* the call with the injection requested and no listener added for the message
Call_injectsFirst(c, action, r) ==
    /\ pc[c] = "idle"
    /\ IF setupDetails(action) = "ok"
       THEN /\ id' = [id EXCEPT ![c] = r]
            /\ script' = [script EXCEPT ![c] = "requested"]
            /\ pc' = [pc EXCEPT ![c] = "injecting"]
            /\ UNCHANGED <<result, listeners>>
       ELSE /\ pc' = [pc EXCEPT ![c] = "done"]
            /\ result' = [result EXCEPT ![c] = Rejected([kind |-> setupDetails(action)])]
            /\ UNCHANGED <<id, listeners, script>>
    /\ UNCHANGED <<promise, work, sent, channel>>
    /\ UNCHANGED nonExecVars

\* the call: generate the id, set up the details, add the listener, inject
Call(c, action, r) ==
    /\ pc[c] = "idle"
    /\ IF setupDetails(action) = "ok"
       THEN /\ id' = [id EXCEPT ![c] = r]
            /\ listeners' = listeners \cup {c}
            /\ script' = [script EXCEPT ![c] = "requested"]
            /\ pc' = [pc EXCEPT ![c] = "injecting"]
            /\ UNCHANGED result
       ELSE /\ pc' = [pc EXCEPT ![c] = "done"]
            /\ result' = [result EXCEPT ![c] = Rejected([kind |-> setupDetails(action)])]
            /\ UNCHANGED <<id, listeners, script>>
    /\ UNCHANGED <<promise, work, sent, channel>>
    /\ UNCHANGED nonExecVars

\* a failure of chrome.tabs.executeScript that is caught, the injection being
\* requested again
InjectFail_retries(c) ==
    /\ script[c] \in {"requested", "failed"}
    /\ script' = [script EXCEPT ![c] = IF @ = "requested" THEN "failed" ELSE "requested"]
    /\ UNCHANGED <<pc, id, promise, result, work, sent, listeners, channel>>
    /\ UNCHANGED nonExecVars

\* chrome.tabs.executeScript fails: the await at line 230 throws
InjectFail(c) ==
    /\ script[c] = "requested"
    /\ script' = [script EXCEPT ![c] = "failed"]
    /\ pc' = [pc EXCEPT ![c] = "done"]
    /\ result' = [result EXCEPT ![c] = Rejected([kind |-> "inject"])]
    /\ UNCHANGED <<id, promise, work, sent, listeners, channel>>
    /\ UNCHANGED nonExecVars

\* the browser injects the script: the wrapper starts in the tab
InjectScript(c) ==
    /\ script[c] = "requested"
    /\ script' = [script EXCEPT ![c] = "running"]
    /\ UNCHANGED <<pc, id, promise, result, work, sent, listeners, channel>>
    /\ UNCHANGED nonExecVars

\* the extension page gets the acknowledgement of the injection (line 230),
\* and goes on to await the message (line 233)
AckInjection(c) ==
    /\ pc[c] = "injecting"
    /\ script[c] \in {"running", "finished"}
    /\ IF promise[c] = Pending
       THEN /\ pc' = [pc EXCEPT ![c] = "awaitMessage"]
            /\ UNCHANGED result
       ELSE /\ pc' = [pc EXCEPT ![c] = "done"]
            /\ result' = [result EXCEPT ![c] = Translate(promise[c].msg)]
    /\ UNCHANGED <<id, script, promise, work, sent, listeners, channel>>
    /\ UNCHANGED nonExecVars

\* the unit of work ends in the tab as w and the wrapper sends its message
RunWrapper(c, w) ==
    /\ script[c] = "running"
    /\ script' = [script EXCEPT ![c] = "finished"]
    /\ work' = [work EXCEPT ![c] = w]
    /\ sent' = [sent EXCEPT ![c] = @ + 1]
    /\ channel' = channel \cup {[msg |-> wrapAsyncSendMessage(id[c], w), from |-> c]}
    /\ UNCHANGED <<pc, id, promise, result, listeners>>
    /\ UNCHANGED nonExecVars

\* chrome.runtime.onMessage fires with a message sent by a wrapper
DeliverMessage(e) ==
    /\ e \in channel
    /\ channel' = channel \ {e}
    /\ listeners' = RemoveMessageListeners(e.msg)
    /\ promise' = [c \in Calls |->
                     IF c \in MessageSettles(e.msg) THEN Resolve(promise[c], e) ELSE promise[c]]
    /\ pc' = [c \in Calls |->
                IF c \in MessageSettles(e.msg) /\ pc[c] = "awaitMessage" THEN "done" ELSE pc[c]]
    /\ result' = [c \in Calls |->
                    IF c \in MessageSettles(e.msg) /\ pc[c] = "awaitMessage"
                    THEN Translate(e.msg) ELSE result[c]]
    /\ UNCHANGED <<id, script, work, sent>>
    /\ UNCHANGED nonExecVars

ExecNext ==
    \/ \E c \in Calls, a \in Actions, r \in Tokens : Call(c, a, r)
    \/ \E c \in Calls : InjectFail(c)
    \/ \E c \in Calls : InjectScript(c)
    \/ \E c \in Calls : AckInjection(c)
    \/ \E c \in Calls, w \in Works : RunWrapper(c, w)
    \/ \E e \in channel : DeliverMessage(e)

\* ------------------------------------------------------------ the onMessage listener, step by step
NoRequest == [from |-> 0, msg |-> [t |-> "none"]]
\* messages on chrome.runtime.onMessage that no wrapper sent: null, undefined, an
\* object without asyncFuncID (reads as undefined), an object with a foreign one
UnrelatedMessages ==
    {Null, Undefined,
     [t |-> "object", asyncFuncID |-> "undefined", content |-> Undefined, error |-> Undefined],
     [t |-> "object", asyncFuncID |-> "ffff", content |-> Num(1), error |-> Undefined]}
\* the actions and units of work used with the step-by-step listener
StepActions == {[type |-> "function"]}
StepWorks == {[kind |-> "resolve", value |-> Num(1)],
              [kind |-> "throw", value |-> ErrorObj("boom", "at page")]}

StepInit ==
    /\ dispatching = NoRequest
    /\ todo = {}
    /\ invoked = {}
    /\ lpc = [c \in Calls |-> 0]

\* the matched branch with its two statements exchanged
ListenerBody_resolveFirst == <<"resolve", "remove">>

\* the statements of the listener's matched branch, in program order:
\* chromeEvent.removeListener(listener); resolve(params[0]);
ListenerBody == <<"remove", "resolve">>

\* the host starts to dispatch message e to the listeners registered now
Dispatch(e) ==
    /\ dispatching = NoRequest
    /\ dispatching' = e
    /\ todo' = listeners
    /\ invoked' = {}
    /\ channel' = channel \ {e}
    /\ UNCHANGED <<pc, id, script, promise, result, work, sent, listeners, lpc>>
    /\ UNCHANGED <<tabVars, promVars, pollVars, detailsVars, apiVars, pairVars, tokenVars>>

\* the host invokes the listener of call c: the test of line 194
listenerTest(c) ==
    /\ c \in todo
    /\ \A d \in Calls : lpc[d] = 0
    /\ IF MessageMatches(dispatching.msg, id[c])
       THEN /\ lpc' = [lpc EXCEPT ![c] = 1]
            /\ UNCHANGED <<todo, invoked>>
       ELSE /\ todo' = todo \ {c}
            /\ invoked' = invoked \cup {c}
            /\ UNCHANGED lpc
    /\ UNCHANGED <<dispatching, execVars, tabVars, promVars, pollVars, detailsVars, apiVars, pairVars, tokenVars>>

\* the listener of call c executes its next statement; after the last one it
\* returns and the continuation of `await message` runs if the call is there
listenerStep(c) ==
    /\ lpc[c] > 0
    /\ LET stmt == ListenerBody[lpc[c]]
           last == lpc[c] = Len(ListenerBody)
           p == IF stmt = "resolve" THEN Resolve(promise[c], dispatching) ELSE promise[c]
           resumes == last /\ pc[c] = "awaitMessage" /\ p # Pending
       IN  /\ listeners' = IF stmt = "remove" THEN listeners \ {c} ELSE listeners
           /\ promise' = [promise EXCEPT ![c] = p]
           /\ lpc' = [lpc EXCEPT ![c] = IF last THEN 0 ELSE @ + 1]
           /\ todo' = IF last THEN todo \ {c} ELSE todo
           /\ invoked' = IF last THEN invoked \cup {c} ELSE invoked
           /\ pc' = [pc EXCEPT ![c] = IF resumes THEN "done" ELSE @]
           /\ result' = [result EXCEPT ![c] = IF resumes THEN Translate(p.msg) ELSE @]
    /\ UNCHANGED <<id, script, work, sent, channel, dispatching>>
    /\ UNCHANGED <<tabVars, promVars, pollVars, detailsVars, apiVars, pairVars, tokenVars>>

\* every listener has returned: the dispatch is over
EndDispatch ==
    /\ dispatching # NoRequest
    /\ todo = {}
    /\ dispatching' = NoRequest
    /\ invoked' = {}
    /\ UNCHANGED <<todo, lpc, execVars, tabVars, promVars, pollVars, detailsVars, apiVars, pairVars, tokenVars>>

\* the extension page runs one task at a time: a call or a continuation does not
\* start while a dispatch is under way; the tab and the browser run on their own
StepNext ==
    \/ \E c \in Calls, a \in StepActions, r \in Tokens : dispatching = NoRequest /\ Call(c, a, r)
    \/ \E c \in Calls : InjectScript(c)
    \/ \E c \in Calls : dispatching = NoRequest /\ AckInjection(c)
    \/ \E c \in Calls, w \in StepWorks : RunWrapper(c, w)
    \/ \E e \in channel : Dispatch(e)
    \/ \E n \in UnrelatedMessages : Dispatch([from |-> 0, msg |-> n])
    \/ \E c \in Calls : listenerTest(c)
    \/ \E c \in Calls : listenerStep(c)
    \/ EndDispatch

\* ------------------------------------------------------------ chrome.tabs events
\* changeInfo.status of an onUpdated event ("undefined": the change is not a status change)
Statuses == {"loading", "complete", "undefined"}
OpenStates == {"loading", "complete"}

\* the parameters of the onUpdated event for tab t with changeInfo.status s
UpdatedEvent(t, s) ==
    [tabId |-> t, changeInfo |-> [status |-> s],
     tab |-> [id |-> t, status |-> IF s = "undefined" THEN tabState[t] ELSE s]]

\* the onUpdated test without the status
UpdatedMatches_anyStatus(params, token) == params.tabId = token

\* the onUpdated test without the tab id
UpdatedMatches_anyTab(params, token) == params.changeInfo.status = "complete"

\* the test of the onUpdated branch of the listener
UpdatedMatches(params, token) ==
    /\ params.tabId = token
    /\ params.changeInfo.status = "complete"

\* the value the onUpdated branch of the listener resolves with
UpdatedResult(params) ==
    [tabId |-> params.tabId, changeInfo |-> params.changeInfo, tab |-> params.tab]

\* the listeners that remove themselves and resolve when the event is dispatched
UpdatedSettles(params) ==
    {w \in updListeners : UpdatedMatches(params, wtab[w])}

\* ------------------------------------------------------------ createAndWait, reloadAndWait
\* createAndWait calls chrome.tabs.create and awaits it (line 245)
createAndWait(w) ==
    /\ wpc[w] = "idle"
    /\ wpc' = [wpc EXCEPT ![w] = "creating"]
    /\ wop' = [wop EXCEPT ![w] = "create"]
    /\ UNCHANGED <<wtab, wignored, wresult, updListeners, tabState>>
    /\ UNCHANGED nonTabVars

\* reloadAndWait calls chrome.tabs.reload for tab t and awaits it (line 252)
reloadAndWait(w, t) ==
    /\ wpc[w] = "idle"
    /\ wpc' = [wpc EXCEPT ![w] = "reloading"]
    /\ wop' = [wop EXCEPT ![w] = "reload"]
    /\ wtab' = [wtab EXCEPT ![w] = t]
    /\ UNCHANGED <<wignored, wresult, updListeners, tabState>>
    /\ UNCHANGED nonTabVars

\* a failure of the primitive that is swallowed: the wait is started all the same
PrimitiveFail_startsWait(w) ==
    /\ wpc[w] \in {"creating", "reloading"}
    /\ wpc' = [wpc EXCEPT ![w] = "waiting"]
    /\ updListeners' = updListeners \cup {w}
    /\ UNCHANGED <<wop, wtab, wignored, wresult, tabState>>
    /\ UNCHANGED nonTabVars

\* chrome.tabs.create or chrome.tabs.reload fails: the await throws
PrimitiveFail(w) ==
    /\ wpc[w] \in {"creating", "reloading"}
    /\ wpc' = [wpc EXCEPT ![w] = "done"]
    /\ wresult' = [wresult EXCEPT ![w] =
                     Rejected([kind |-> IF wpc[w] = "creating" THEN "create" ELSE "reload"])]
    /\ UNCHANGED <<wop, wtab, wignored, updListeners, tabState>>
    /\ UNCHANGED nonTabVars

\* the browser creates the tab, which starts loading
HostCreate(w, t) ==
    /\ wpc[w] = "creating"
    /\ tabState[t] = "absent"
    /\ tabState' = [tabState EXCEPT ![t] = "loading"]
    /\ wtab' = [wtab EXCEPT ![w] = t]
    /\ wpc' = [wpc EXCEPT ![w] = "created"]
    /\ UNCHANGED <<wop, wignored, wresult, updListeners>>
    /\ UNCHANGED nonTabVars

\* the browser starts reloading the tab
HostReload(w) ==
    /\ wpc[w] = "reloading"
    /\ tabState[wtab[w]] \in OpenStates
    /\ tabState' = [tabState EXCEPT ![wtab[w]] = "loading"]
    /\ wpc' = [wpc EXCEPT ![w] = "reloaded"]
    /\ UNCHANGED <<wop, wtab, wignored, wresult, updListeners>>
    /\ UNCHANGED nonTabVars

\* the extension page gets the acknowledgement of create or reload, and
\* promisifyChromeEvent(chrome.tabs.onUpdated, id) adds its listener (lines 246, 253)
AckPrimitive(w) ==
    /\ wpc[w] \in {"created", "reloaded"}
    /\ wpc' = [wpc EXCEPT ![w] = "waiting"]
    /\ updListeners' = updListeners \cup {w}
    /\ UNCHANGED <<wop, wtab, wignored, wresult, tabState>>
    /\ UNCHANGED nonTabVars

\* chrome.tabs.onUpdated fires for tab t with changeInfo.status s
EmitUpdated(t, s) ==
    /\ tabState[t] \in OpenStates
    /\ UNCHANGED <<wop, wtab>>
    /\ tabState' = [tabState EXCEPT ![t] = IF s = "undefined" THEN @ ELSE s]
    /\ LET settled == UpdatedSettles(UpdatedEvent(t, s))
       IN  /\ updListeners' = updListeners \ settled
           /\ wpc' = [w \in Waits |-> IF w \in settled THEN "done" ELSE wpc[w]]
           /\ wresult' = [w \in Waits |->
                            IF w \in settled
                            THEN Resolved(UpdatedResult(UpdatedEvent(t, s))) ELSE wresult[w]]
           /\ wignored' = [w \in Waits |->
                             wignored[w] \/ (w \in updListeners /\ wtab[w] = t
                                               /\ w \notin settled)]
    /\ UNCHANGED nonTabVars

\* chrome.tabs.onRemoved fires for tab t: nothing listens to it
EmitRemoved(t) ==
    /\ tabState[t] \in OpenStates
    /\ tabState' = [tabState EXCEPT ![t] = "removed"]
    /\ UNCHANGED <<wpc, wop, wtab, wignored, wresult, updListeners>>
    /\ UNCHANGED nonTabVars

\* chrome.tabs.onReplaced fires: tab old is replaced by tab new; nothing listens to it
EmitReplaced(new, old) ==
    /\ tabState[old] \in OpenStates
    /\ tabState[new] = "absent"
    /\ tabState' = [tabState EXCEPT ![old] = "replaced", ![new] = tabState[old]]
    /\ UNCHANGED <<wpc, wop, wtab, wignored, wresult, updListeners>>
    /\ UNCHANGED nonTabVars

TabNext ==
    \/ \E w \in Waits : createAndWait(w)
    \/ \E w \in Waits, t \in Tabs : reloadAndWait(w, t)
    \/ \E w \in Waits : PrimitiveFail(w)
    \/ \E w \in Waits, t \in Tabs : HostCreate(w, t)
    \/ \E w \in Waits : HostReload(w)
    \/ \E w \in Waits : AckPrimitive(w)
    \/ \E t \in Tabs, s \in Statuses : EmitUpdated(t, s)
    \/ \E t \in Tabs : EmitRemoved(t)
    \/ \E new \in Tabs, old \in Tabs : EmitReplaced(new, old)

\* ------------------------------------------------------------ promisify
PCalls == 1..NumPromisified
NoEvent == [kind |-> "none"]
\* chrome.runtime.lastError while a callback runs: undefined when the API succeeded
LastErrors == {Undefined, [t |-> "object", message |-> Str("No tab with id: 9")]}
\* the parameters the host passes to a callback: none, one, or several
CbArgs == {<<>>, <<Num(1)>>, <<Num(2)>>, <<Num(1), Num(1)>>, <<Num(1), Num(2)>>}
\* one invocation of the callback by the host
Callbacks == [kind : {"callback"}, lastError : LastErrors, cbArgs : CbArgs]
\* the wrapped function throwing
Throws == [kind : {"throw"}, err : Thrown]

PromInit ==
    /\ ppc = [k \in PCalls |-> "idle"]
    /\ pprom = [k \in PCalls |-> NotSettled]
    /\ pfirst = [k \in PCalls |-> NoEvent]
    /\ pevents = [k \in PCalls |-> 0]

\* a promise that every call of resolve() or reject() settles anew
Settle_overwrites(p, outcome) == outcome

\* resolve() and reject() of new Promise: the first call settles, later ones do nothing
Settle(p, outcome) == IF p = NotSettled THEN outcome ELSE p

\* resolve(...cbArgs): resolve takes its first argument and drops the others
ResolveSpread(p, cbArgs) ==
    Settle(p, Resolved(IF Len(cbArgs) = 0 THEN Undefined ELSE cbArgs[1]))

\* the callback without the lastError test
callback_ignoresLastError(p, cb) == ResolveSpread(p, cb.cbArgs)

\* the callback promisify hands to f
callback(p, cb) ==
    IF Truthy(cb.lastError)
    THEN Settle(p, Rejected(cb.lastError))
    ELSE ResolveSpread(p, cb.cbArgs)

\* the promisified function is called: the executor runs f(...args, callback) in a
\* try block; f may invoke the callback before it returns (sync) and may throw
promisify(k, sync, thrown) ==
    /\ ppc[k] = "idle"
    /\ ppc' = [ppc EXCEPT ![k] = IF thrown = NoEvent THEN "called" ELSE "threw"]
    /\ LET afterF == IF sync = NoEvent THEN NotSettled ELSE callback(NotSettled, sync)
       IN  pprom' = [pprom EXCEPT ![k] =
                       IF thrown = NoEvent THEN afterF ELSE Settle(afterF, Rejected(thrown.err))]
    /\ pfirst' = [pfirst EXCEPT ![k] = IF sync # NoEvent THEN sync ELSE thrown]
    /\ pevents' = [pevents EXCEPT ![k] = IF sync = NoEvent THEN 0 ELSE 1]
    /\ UNCHANGED nonPromVars

\* the host invokes the callback after f has returned, or has thrown
HostCallback(k, cb) ==
    /\ ppc[k] \in {"called", "threw"}
    /\ pevents[k] < MaxCallbacks
    /\ pprom' = [pprom EXCEPT ![k] = callback(@, cb)]
    /\ pfirst' = [pfirst EXCEPT ![k] = IF @ = NoEvent THEN cb ELSE @]
    /\ pevents' = [pevents EXCEPT ![k] = @ + 1]
    /\ UNCHANGED ppc
    /\ UNCHANGED nonPromVars

PromNext ==
    \/ \E k \in PCalls, sync \in {NoEvent} \cup Callbacks, thrown \in {NoEvent} \cup Throws :
          promisify(k, sync, thrown)
    \/ \E k \in PCalls, cb \in Callbacks : HostCallback(k, cb)

\* ------------------------------------------------------------ executeAsyncFunction, polling versions
\* the two polling versions of the file: the first one (no id, no finally block),
\* and the one with the asyncFuncID; one of them is installed
PollVersions == {"first", "id"}
\* the calls made: two, so that one can be under way during another
PollCalls == {1, 2}
\* wait(50): the time in ms the loop waits between two turns
PollPeriod == 50
\* the default value of the timeout parameter, in ms
DefaultTimeout == 10000
\* the timeout argument of a call: left out, or a number of ms
NoTimeout == [given |-> FALSE]
PollTimeouts == {NoTimeout} \cup [given : {TRUE}, ms : {0, PollPeriod}]
\* the value of the timeout parameter for an argument
TimeoutParameter(arg) == IF arg.given THEN arg.ms ELSE DefaultTimeout
\* the instants of performance.now() told apart: the first poll periods, and the
\* poll periods from the default timeout on
Times ==
    {k * PollPeriod : k \in 0..MaxTime} \cup {DefaultTimeout + k * PollPeriod : k \in 0..MaxTime}
\* how the unit of work injected in the tab ends
PollWorks == {[kind |-> "resolve", value |-> Num(1)],
              [kind |-> "throw", value |-> ErrorObj("boom", "at page")],
              [kind |-> "throw", value |-> Null]}

PollInitFor(version) ==
    /\ qversion = version
    /\ qpc = [c \in PollCalls |-> "idle"]
    /\ qid = [c \in PollCalls |-> ""]
    /\ qscript = [c \in PollCalls |-> "none"]
    /\ qtimeout = [c \in PollCalls |-> 0]
    /\ qstart = [c \in PollCalls |-> 0]
    /\ qtimeoutAt = [c \in PollCalls |-> 0]
    /\ qwake = [c \in PollCalls |-> 0]
    /\ qmessaged = [c \in PollCalls |-> FALSE]
    /\ qmessage = [c \in PollCalls |-> Null]
    /\ qresult = [c \in PollCalls |-> NotSettled]
    /\ qsent = [c \in PollCalls |-> 0]
    /\ qlisteners = {}
    /\ qchannel = {}
    /\ now = 0

PollInit == PollInitFor("first")

\* the messages the first version's wrapper sends when the unit of work ends as w:
\* sendMessage comes after the try/catch, not in a finally block, so it is not
\* reached when the catch block itself throws on reading x.message
pollWrapAsyncSendMessage(w) ==
    IF w.kind = "resolve"
    THEN {[t |-> "object", content |-> w.value, error |-> Undefined]}
    ELSE IF w.value \in {Null, Undefined}
    THEN {}
    ELSE {[t |-> "object", content |-> Undefined,
           error |-> [t |-> "object", message |-> Prop(w.value, "message"),
                      stack |-> Prop(w.value, "stack")]]}

\* the messages the wrapper of the installed version sends for call c
PollSends(c, w) ==
    IF qversion = "first"
    THEN pollWrapAsyncSendMessage(w)
    ELSE {wrapAsyncSendMessage(qid[c], w)}

\* after the loop of the first version: the outcome of the call for the message held
PollTranslate(m) ==
    IF Truthy(m.error)
    THEN Rejected([kind |-> "remote", message |-> m.error.message])
    ELSE Resolved(m.content)

\* the timeout test of the loop with the test of the version with the id in both
PollTimedOut_whenPositive(c, deadline) == qtimeout[c] > 0 /\ now >= deadline

\* the timeout test of the loop: the version with the id skips it for timeout 0
PollTimedOut(c, deadline) ==
    IF qversion = "first"
    THEN now >= deadline
    ELSE qtimeout[c] > 0 /\ now >= deadline

\* one turn of the while loop of call c, started at start; when the call returns
\* or throws, its parameter and locals are gone (kept as 0)
PollLoop(c, start) ==
    IF qmessaged[c] \/ PollTimedOut(c, start + qtimeout[c])
    THEN /\ qpc' = [qpc EXCEPT ![c] = "done"]
         /\ qresult' = [qresult EXCEPT ![c] =
                          IF ~qmessaged[c] THEN Rejected([kind |-> "timeout"])
                          ELSE IF qversion = "first" THEN PollTranslate(qmessage[c])
                          ELSE Translate(qmessage[c])]
         /\ qtimeout' = [qtimeout EXCEPT ![c] = 0]
         /\ qstart' = [qstart EXCEPT ![c] = 0]
         /\ qtimeoutAt' = [qtimeoutAt EXCEPT ![c] = 0]
         /\ qwake' = [qwake EXCEPT ![c] = 0]
    ELSE /\ qpc' = [qpc EXCEPT ![c] = "polling"]
         /\ qstart' = [qstart EXCEPT ![c] = start]
         /\ qtimeoutAt' = [qtimeoutAt EXCEPT ![c] = start + qtimeout[c]]
         /\ qwake' = [qwake EXCEPT ![c] = now + PollPeriod]
         /\ UNCHANGED <<qresult, qtimeout>>

\* the call: (the version with the id: generate the id,) wrap the action, add the
\* listener, inject
PollCall(c, action, timeout, r) ==
    /\ qpc[c] = "idle"
    /\ IF setupDetails(action) = "ok"
       THEN /\ qid' = [qid EXCEPT ![c] = IF qversion = "first" THEN "" ELSE r]
            /\ qlisteners' = qlisteners \cup {c}
            /\ qscript' = [qscript EXCEPT ![c] = "requested"]
            /\ qpc' = [qpc EXCEPT ![c] = "injecting"]
            /\ qtimeout' = [qtimeout EXCEPT ![c] = TimeoutParameter(timeout)]
            /\ UNCHANGED qresult
       ELSE /\ qpc' = [qpc EXCEPT ![c] = "done"]
            /\ qresult' = [qresult EXCEPT ![c] = Rejected([kind |-> setupDetails(action)])]
            /\ UNCHANGED <<qid, qlisteners, qscript, qtimeout>>
    /\ UNCHANGED <<qversion, qstart, qtimeoutAt, qwake, qmessaged, qmessage, qsent, qchannel, now>>
    /\ UNCHANGED nonPollVars

\* chrome.tabs.executeScript fails: the await throws
PollInjectFail(c) ==
    /\ qscript[c] = "requested"
    /\ qscript' = [qscript EXCEPT ![c] = "failed"]
    /\ qpc' = [qpc EXCEPT ![c] = "done"]
    /\ qresult' = [qresult EXCEPT ![c] = Rejected([kind |-> "inject"])]
    /\ qtimeout' = [qtimeout EXCEPT ![c] = 0]
    /\ UNCHANGED <<qversion, qid, qstart, qtimeoutAt, qwake, qmessaged, qmessage, qsent,
                   qlisteners, qchannel, now>>
    /\ UNCHANGED nonPollVars

\* the browser injects the script: the wrapper starts in the tab
PollInjectScript(c) ==
    /\ qscript[c] = "requested"
    /\ qscript' = [qscript EXCEPT ![c] = "running"]
    /\ UNCHANGED <<qversion, qpc, qid, qtimeout, qstart, qtimeoutAt, qwake, qmessaged, qmessage,
                   qresult, qsent, qlisteners, qchannel, now>>
    /\ UNCHANGED nonPollVars

\* the extension page gets the acknowledgement of the injection: start and
\* timeoutAt are set and the loop makes its first turn
PollAck(c) ==
    /\ qpc[c] = "injecting"
    /\ qscript[c] \in {"running", "finished"}
    /\ PollLoop(c, now)
    /\ UNCHANGED <<qversion, qid, qscript, qmessaged, qmessage, qsent, qlisteners, qchannel, now>>
    /\ UNCHANGED nonPollVars

\* wait(50) is over: the loop makes its next turn
PollWake(c) ==
    /\ qpc[c] = "polling"
    /\ now >= qwake[c]
    /\ PollLoop(c, qstart[c])
    /\ UNCHANGED <<qversion, qid, qscript, qmessaged, qmessage, qsent, qlisteners, qchannel, now>>
    /\ UNCHANGED nonPollVars

\* the unit of work ends in the tab as w and the wrapper goes on to its end
PollRunWrapper(c, w) ==
    /\ qscript[c] = "running"
    /\ qscript' = [qscript EXCEPT ![c] = "finished"]
    /\ qsent' = [qsent EXCEPT ![c] = @ + Cardinality(PollSends(c, w))]
    /\ qchannel' = qchannel \cup {[msg |-> m, from |-> c] : m \in PollSends(c, w)}
    /\ UNCHANGED <<qversion, qpc, qid, qtimeout, qstart, qtimeoutAt, qwake, qmessaged, qmessage,
                   qresult, qlisteners, now>>
    /\ UNCHANGED nonPollVars

\* a listener that takes a message only when it holds none yet
PollTakes_firstOnly(c, request) ==
    /\ c \in qlisteners
    /\ ~qmessaged[c]

\* the listener of call c takes request: the first version takes every message,
\* the version with the id the messages with the call's id
PollTakes(c, request) ==
    /\ c \in qlisteners
    /\ qversion = "first" \/ MessageMatches(request, qid[c])

\* the dispatch with listeners that remove themselves when they take the message
PollDeliver_removes(e) ==
    /\ e \in qchannel
    /\ qchannel' = qchannel \ {e}
    /\ qmessaged' = [c \in PollCalls |->
                       IF PollTakes(c, e.msg) /\ qpc[c] # "done" THEN TRUE ELSE qmessaged[c]]
    /\ qmessage' = [c \in PollCalls |->
                      IF PollTakes(c, e.msg) /\ qpc[c] # "done" THEN e.msg ELSE qmessage[c]]
    /\ qlisteners' = {c \in qlisteners : ~PollTakes(c, e.msg)}
    /\ UNCHANGED <<qversion, qpc, qid, qscript, qtimeout, qstart, qtimeoutAt, qwake, qresult, qsent,
                   now>>
    /\ UNCHANGED nonPollVars

\* chrome.runtime.onMessage fires: every registered listener is invoked (what the
\* listener of a call that is over writes is read by nobody, and is not recorded)
PollDeliver(e) ==
    /\ e \in qchannel
    /\ qchannel' = qchannel \ {e}
    /\ qmessaged' = [c \in PollCalls |->
                       IF PollTakes(c, e.msg) /\ qpc[c] # "done" THEN TRUE ELSE qmessaged[c]]
    /\ qmessage' = [c \in PollCalls |->
                      IF PollTakes(c, e.msg) /\ qpc[c] # "done" THEN e.msg ELSE qmessage[c]]
    /\ UNCHANGED <<qversion, qpc, qid, qscript, qtimeout, qstart, qtimeoutAt, qwake, qresult, qsent,
                   qlisteners, now>>
    /\ UNCHANGED nonPollVars

\* time passes, by any amount
Tick(t) ==
    /\ t > now
    /\ now' = t
    /\ UNCHANGED <<qversion, qpc, qid, qscript, qtimeout, qstart, qtimeoutAt, qwake, qmessaged,
                   qmessage, qresult, qsent, qlisteners, qchannel>>
    /\ UNCHANGED nonPollVars

PollNext ==
    \/ \E c \in PollCalls, a \in Actions, timeout \in PollTimeouts, r \in Tokens :
          PollCall(c, a, timeout, r)
    \/ \E c \in PollCalls : PollInjectFail(c)
    \/ \E c \in PollCalls : PollInjectScript(c)
    \/ \E c \in PollCalls : PollAck(c)
    \/ \E c \in PollCalls : PollWake(c)
    \/ \E c \in PollCalls, w \in PollWorks : PollRunWrapper(c, w)
    \/ \E e \in qchannel : PollDeliver(e)
    \/ \E t \in Times : Tick(t)

\* ------------------------------------------------------------ setupDetails, the code injected
\* the details objects ({code: ...}) the caller holds and may pass to several calls
DetailsObjects == 1..NumDetails
\* a piece of code is the original code of the caller inside the wrappers put
\* around it: the sequence of the ids of these wrappers, the innermost first
OriginalCode == <<>>

DetailsInit ==
    /\ detailsCode = [o \in DetailsObjects |-> OriginalCode]
    /\ injections = <<>>

\* the template of wrapAsyncSendMessage: the wrapper with id token around code
wrapCode(code, token) == Append(code, token)

\* executeAsyncFunction called with a function or a string: setupDetails wraps it
\* into the code of a new execArgs object, which is injected
CallWithFunction(r) ==
    /\ Len(injections) < MaxSuccessive
    /\ injections' = Append(injections,
                            [details |-> 0, id |-> r, code |-> wrapCode(OriginalCode, r)])
    /\ UNCHANGED detailsCode
    /\ UNCHANGED nonDetailsVars

\* executeAsyncFunction called with the details object o: setupDetails makes
\* execArgs the object itself and assigns the wrapped code to its code property;
\* the object is then passed to chrome.tabs.executeScript
CallWithDetails(o, r) ==
    /\ Len(injections) < MaxSuccessive
    /\ detailsCode' = [detailsCode EXCEPT ![o] = wrapCode(detailsCode[o], r)]
    /\ injections' = Append(injections, [details |-> o, id |-> r, code |-> detailsCode'[o]])
    /\ UNCHANGED nonDetailsVars

DetailsNext ==
    \/ \E r \in Tokens : CallWithFunction(r)
    \/ \E o \in DetailsObjects, r \in Tokens : CallWithDetails(o, r)

\* ------------------------------------------------------------ addAsyncWrappers
\* names of members of a callback API: a function taking a callback, a function
\* taking none or an event, and a plain value
BaseNames == {"get", "connect", "lastError"}
\* p + 'Async'
AsyncName(p) == Append(p, "Async")
\* the member names told apart: the names of the API and the names with the suffix
MemberNames == {<<b>> : b \in BaseNames} \cup {AsyncName(<<b>>) : b \in BaseNames}

\* the object has no member under the name
Absent == [where |-> "absent"]
\* the members an API object has before the library is loaded: own or inherited,
\* functions or other values
Members == [where : {"own", "inherited"}, type : {"function", "other"}]
\* the function promisify(m) returns
Promisified(member) == [where |-> "own", type |-> "function", wraps |-> member]

\* the API objects passed: the members they have are under names of the API, none
\* under a name with the suffix; or there is no such API in this browser
ApiObjects ==
    {Null} \cup
    {o \in [MemberNames -> Members \cup {Absent}] :
        \A b \in BaseNames : o[AsyncName(<<b>>)] = Absent}

ApiInitFor(o) ==
    /\ callbackApi = o
    /\ apiOriginal = o
    /\ apiKnown = {}
    /\ apiCalls = 0

ApiInit == ApiInitFor(Null)

\* the loop without the hasOwnProperty test
promisifyKnownCallbacks_inherited(o, known) ==
    [n \in MemberNames |->
        IF \E p \in known : /\ n = AsyncName(p)
                            /\ o[p] # Absent
                            /\ o[p].type = "function"
        THEN Promisified(o[CHOOSE p \in known : n = AsyncName(p)])
        ELSE o[n]]

\* the object after the loop over its properties: for every own property p that is
\* a function with its name in known, o[p + 'Async'] = promisify(o[p])
promisifyKnownCallbacks(o, known) ==
    [n \in MemberNames |->
        IF \E p \in known : /\ n = AsyncName(p)
                            /\ o[p].where = "own"
                            /\ o[p].type = "function"
        THEN Promisified(o[CHOOSE p \in known : n = AsyncName(p)])
        ELSE o[n]]

\* addAsyncWrappers(callbackApi, ...callbackFunctions)
addAsyncWrappers(known) ==
    /\ apiCalls < MaxWrapCalls
    /\ apiCalls' = apiCalls + 1
    /\ apiKnown' = apiKnown \cup known
    /\ callbackApi' = IF callbackApi # Null
                      THEN promisifyKnownCallbacks(callbackApi, known)
                      ELSE callbackApi
    /\ UNCHANGED apiOriginal
    /\ UNCHANGED nonApiVars

ApiNext == \E known \in SUBSET {<<b>> : b \in BaseNames} : addAsyncWrappers(known)

\* ------------------------------------------------------------ promisifyRuntimeMessage, promisifyChromeEvent
Pairs == 1..NumPairs
\* the arguments chrome.runtime.onMessage hands to its listeners in one event: the
\* message, with or without the sender after it, or nothing at all; the messages
\* are null, undefined, an object without asyncFuncID (reads as undefined) and
\* objects with the id of a pair or a foreign one
PairMessages ==
    {Null, Undefined,
     [t |-> "object", asyncFuncID |-> "undefined", content |-> Num(1), error |-> Undefined]}
        \cup {[t |-> "object", asyncFuncID |-> a, content |-> v, error |-> Undefined] :
                a \in Tokens \cup {"ffff"}, v \in {Num(1), Num(2)}}
PairEvents ==
    {<<>>} \cup {<<msg>> : msg \in PairMessages}
           \cup {<<msg, [t |-> "object", sender |-> "tab"]>> : msg \in PairMessages}

PairInit ==
    /\ pairId = [p \in Pairs |-> ""]
    /\ rmListening = [p \in Pairs |-> FALSE]
    /\ rmPromise = [p \in Pairs |-> Pending]
    /\ ceListening = [p \in Pairs |-> FALSE]
    /\ cePromise = [p \in Pairs |-> Pending]
    /\ dispatched = 0

\* the value of the first parameter of a function called with the arguments params
\* (params[0] of a rest parameter): undefined when there is none
FirstArgument(params) == IF Len(params) = 0 THEN Undefined ELSE params[1]

\* the test of the listener of promisifyRuntimeMessage (line 64)
RuntimeMessageMatches(request, token) ==
    /\ Truthy(request)
    /\ request.asyncFuncID = token

\* the listener of promisifyRuntimeMessage(token), called with the arguments
\* params: whether it stays registered, and its promise, afterwards
RuntimeMessageListener(token, params, promiseBefore) ==
    LET request == FirstArgument(params)
    IN  IF RuntimeMessageMatches(request, token)
        THEN [listening |-> FALSE, promise |-> Resolve(promiseBefore, request)]
        ELSE [listening |-> TRUE, promise |-> promiseBefore]

\* the listener of promisifyChromeEvent(chrome.runtime.onMessage, token), called
\* with the arguments params (params itself, an array, is truthy): the else branch
ChromeEventListener(token, params, promiseBefore) ==
    IF MessageMatches(FirstArgument(params), token)
    THEN [listening |-> FALSE, promise |-> Resolve(promiseBefore, FirstArgument(params))]
    ELSE [listening |-> TRUE, promise |-> promiseBefore]

\* both functions are called with the id r: each adds its listener and returns
\* its promise
PromisifyPair(p, r) ==
    /\ pairId[p] = ""
    /\ pairId' = [pairId EXCEPT ![p] = r]
    /\ rmListening' = [rmListening EXCEPT ![p] = TRUE]
    /\ ceListening' = [ceListening EXCEPT ![p] = TRUE]
    /\ UNCHANGED <<rmPromise, cePromise, dispatched>>
    /\ UNCHANGED nonPairVars

\* chrome.runtime.onMessage fires with the arguments params: every registered
\* listener is invoked with them
PairDispatch(params) ==
    /\ dispatched < MaxMessages
    /\ dispatched' = dispatched + 1
    /\ rmListening' = [p \in Pairs |->
                         IF rmListening[p]
                         THEN RuntimeMessageListener(pairId[p], params, rmPromise[p]).listening
                         ELSE FALSE]
    /\ rmPromise' = [p \in Pairs |->
                       IF rmListening[p]
                       THEN RuntimeMessageListener(pairId[p], params, rmPromise[p]).promise
                       ELSE rmPromise[p]]
    /\ ceListening' = [p \in Pairs |->
                         IF ceListening[p]
                         THEN ChromeEventListener(pairId[p], params, cePromise[p]).listening
                         ELSE FALSE]
    /\ cePromise' = [p \in Pairs |->
                       IF ceListening[p]
                       THEN ChromeEventListener(pairId[p], params, cePromise[p]).promise
                       ELSE cePromise[p]]
    /\ UNCHANGED pairId
    /\ UNCHANGED nonPairVars

PairNext ==
    \/ \E p \in Pairs, r \in Tokens : PromisifyPair(p, r)
    \/ \E params \in PairEvents : PairDispatch(params)

\* ------------------------------------------------------------ the generation of the id
\* 0x10000
IdFactor == 65536
\* 2^n
RECURSIVE Pow2(_)
Pow2(n) == IF n = 0 THEN 1 ELSE 2 * Pow2(n - 1)
\* the values of Math.random(), in [0, 1), in units of 2^-(FractionBits + 1)
Randoms == 0..(Pow2(FractionBits + 1) - 1)

TokenInitFor(n) ==
    /\ random = n
    /\ generated = <<>>

TokenInit == TokenInitFor(0)

\* 1 + r in floating point, in units of 2^-FractionBits: the exact sum when it has
\* no more than FractionBits bits of fraction, else the nearer of its two
\* neighbours, the even one
OnePlus(n) ==
    LET exact == Pow2(FractionBits + 1) + n
    IN  IF exact % 2 = 0 THEN exact \div 2
        ELSE IF ((exact - 1) \div 2) % 2 = 0 THEN (exact - 1) \div 2 ELSE (exact + 1) \div 2

\* Math.floor(x * 0x10000) for x in units of 2^-FractionBits (the product by a
\* power of two is exact)
FloorTimesFactor(x) ==
    IF Pow2(FractionBits) >= IdFactor
    THEN x \div (Pow2(FractionBits) \div IdFactor)
    ELSE x * (IdFactor \div Pow2(FractionBits))

\* the digit characters of toString(16)
HexDigit(d) ==
    <<"0", "1", "2", "3", "4", "5", "6", "7", "8", "9", "a", "b", "c", "d", "e", "f">>[d + 1]

\* n.toString(16) for an integer n >= 0: no leading zeros
RECURSIVE ToString16(_)
ToString16(n) == IF n < 16 THEN <<HexDigit(n)>> ELSE Append(ToString16(n \div 16), HexDigit(n % 16))

\* s.substring(1)
Substring1(s) == IF Len(s) = 0 THEN s ELSE Tail(s)

\* the id without the 1 added before the product
RandomId_noLeadingOne(n) ==
    Substring1(ToString16(FloorTimesFactor(n \div 2)))

\* Math.floor((1 + Math.random()) * 0x10000).toString(16).substring(1)
RandomId(n) ==
    Substring1(ToString16(FloorTimesFactor(OnePlus(n))))

\* line 221: the id is generated
GenerateId ==
    /\ generated = <<>>
    /\ generated' = RandomId(random)
    /\ UNCHANGED random
    /\ UNCHANGED nonTokenVars

TokenNext == GenerateId

\* ------------------------------------------------------------ specifications
\* executeAsyncFunction calls on their own
Init == ExecInit /\ TabInit /\ PromInit /\ StepInit /\ PollInit /\ DetailsInit /\ ApiInit /\ PairInit /\ TokenInit
Next == ExecNext
Spec == Init /\ [][Next]_vars

\* the browser delivers what it has accepted: acknowledgements and sent messages
\* (the unit of work in the tab need not ever end)
ExecFairness ==
    /\ \A c \in Calls : WF_vars(AckInjection(c))
    /\ WF_vars(\E e \in channel : DeliverMessage(e))
FairSpec == Spec /\ ExecFairness

\* createAndWait / reloadAndWait calls on their own; one tab is already open
TabSpecInit ==
    /\ ExecInit
    /\ PromInit
    /\ StepInit
    /\ PollInit
    /\ DetailsInit
    /\ ApiInit
    /\ PairInit
    /\ TokenInit
    /\ wpc = [w \in Waits |-> "idle"]
    /\ wop = [w \in Waits |-> "none"]
    /\ wtab = [w \in Waits |-> 0]
    /\ wignored = [w \in Waits |-> FALSE]
    /\ wresult = [w \in Waits |-> NotSettled]
    /\ updListeners = {}
    /\ tabState = [t \in Tabs |-> IF t = 1 THEN "complete" ELSE "absent"]
TabSpec == TabSpecInit /\ [][TabNext]_vars

\* the browser acknowledges create and reload (the tab need not ever finish loading)
TabFairness == \A w \in Waits : WF_vars(AckPrimitive(w))
FairTabSpec == TabSpec /\ TabFairness

\* calls of promisified Chrome API functions on their own
PromSpec == Init /\ [][PromNext]_vars

\* executeAsyncFunction with the dispatch of a message taken statement by statement
StepSpec == Init /\ [][StepNext]_vars

\* calls of a polling version of executeAsyncFunction, whichever is installed
PollSpecInit ==
    /\ ExecInit /\ TabInit /\ PromInit /\ StepInit /\ DetailsInit /\ ApiInit /\ PairInit /\ TokenInit
    /\ \E version \in PollVersions : PollInitFor(version)
PollSpec == PollSpecInit /\ [][PollNext]_vars

\* addAsyncWrappers applied to an API object, for every API object and known list
ApiSpecInit ==
    /\ ExecInit /\ TabInit /\ PromInit /\ StepInit /\ PollInit /\ DetailsInit /\ PairInit /\ TokenInit
    /\ \E o \in ApiObjects : ApiInitFor(o)
ApiSpec == ApiSpecInit /\ [][ApiNext]_vars

\* promisifyRuntimeMessage(id) and promisifyChromeEvent(chrome.runtime.onMessage, id)
\* given the same ids and the same events
PairSpec == Init /\ [][PairNext]_vars

\* the generation of the id, for every value of Math.random()
TokenSpecInit ==
    /\ ExecInit /\ TabInit /\ PromInit /\ StepInit /\ PollInit /\ DetailsInit /\ ApiInit
    /\ PairInit
    /\ \E n \in Randoms : TokenInitFor(n)
TokenSpec == TokenSpecInit /\ [][TokenNext]_vars

\* successive calls of executeAsyncFunction, with details objects the caller keeps
DetailsSpec == Init /\ [][DetailsNext]_vars

\* ------------------------------------------------------------ executeAsyncFunction: claims
\* the handles a call has registered with the host: the onMessage listener added at
\* line 205 for line 227 (the function sets no timer)
Handles(c) == IF c \in listeners THEN {"onMessage"} ELSE {}

\* the call got its injection acknowledged and settled on a message
SettledByMessage(c) == pc[c] = "done" /\ script[c] \in {"running", "finished"}

\* the details object or other argument that carries no code to wrap
InvalidAction(a) == a.type \notin {"function", "string"} /\ ~(a.type = "object" /\ a.code)

\* C1: a call whose unit of work resolves with v and whose injection is acknowledged
\* resolves with exactly v, and its wrapper emits exactly one message.
\* Refuted: a concurrent call with the same random id settles it with another value.
C1_ResolvesWithWorkValue ==
    \A c \in Calls :
        (work[c].kind = "resolve" /\ SettledByMessage(c))
            => (result[c] = Resolved(work[c].value) /\ sent[c] = 1)

\* C2: a call whose unit of work throws rejects, and the rejection carries the
\* original thrown message.
\* Refuted: a thrown null or undefined resolves the call, a thrown string loses its text.
C2_RejectsWithThrownMessage ==
    \A c \in Calls :
        (work[c].kind = "throw" /\ SettledByMessage(c))
            => /\ result[c].state = "rejected"
               /\ result[c].error.kind = "remote"
               /\ result[c].error.message = OriginalMessage(work[c].value)

\* C3: a call whose injection is acknowledged and that never receives a message
\* with its id is eventually rejected with a timeout error.
\* Refuted: the call waits at line 233 for ever.
C3_TimesOutWithoutMessage ==
    \A c \in Calls :
        (pc[c] = "awaitMessage")
            ~> (promise[c] # Pending \/ result[c] = Rejected([kind |-> "timeout"]))

\* C4: each of two outstanding calls settles with the message of its own unit of
\* work, whatever the interleaving.
\* Refuted: two calls that drew the same id both settle on the first message.
C4_NoCrossTalk ==
    \A c \in Calls :
        (SettledByMessage(c) /\ promise[c] # Pending)
            => /\ promise[c].from = c
               /\ result[c] = Translate(wrapAsyncSendMessage(id[c], work[c]))

\* C5: a call whose action carries no code (a details object with a file, or any
\* other non-function, non-string shape) is rejected in the call itself: no
\* listener is added and chrome.tabs.executeScript is not invoked, then or later.
C5_InvalidActionNoSideEffect ==
    /\ [](\A c \in Calls :
            (result[c].state = "rejected" /\ result[c].error.kind \in {"file", "shape", "TypeError"})
                => (c \notin listeners /\ script[c] = "none" /\ sent[c] = 0))
    /\ [][\A c \in Calls, a \in Actions, r \in Tokens :
            (Call(c, a, r) /\ InvalidAction(a))
                => /\ result'[c].state = "rejected"
                   /\ result'[c].error.kind \in {"file", "shape", "TypeError"}
                   /\ a.type = "object" /\ a.file => result'[c].error.kind = "file"
                   /\ listeners' = listeners
                   /\ script' = script]_vars

\* a call with a file-only details object was rejected and left nothing behind
C5_Witness ==
    \E c \in Calls :
        /\ result[c] = Rejected([kind |-> "file"])
        /\ c \notin listeners
        /\ script[c] = "none"

\* C10: the listener of a call settles at most once and is off the event once it
\* has settled; a later message with the same asyncFuncID changes neither the
\* call's outcome nor the listeners that have settled, and when no unsettled
\* listener holds the id it changes nothing but the channel.
C10_SettlesOnce ==
    /\ [](\A c \in Calls : promise[c] # Pending => c \notin listeners)
    /\ [][\A c \in Calls :
            /\ promise[c] # Pending => (promise'[c] = promise[c] /\ c \notin listeners')
            /\ result[c] # NotSettled => result'[c] = result[c]]_vars
    /\ [][\A e \in channel :
            (DeliverMessage(e)
                /\ \A c \in Calls : id[c] = e.msg.asyncFuncID => promise[c] # Pending)
                => UNCHANGED <<listeners, promise, result, pc>>]_vars

\* two messages with the same id were dispatched: the second found the listener
\* of the first settled and removed
C10_Witness ==
    \E c \in Calls, d \in Calls :
        /\ c # d
        /\ id[c] = id[d]
        /\ sent[c] = 1 /\ sent[d] = 1
        /\ channel = {}
        /\ promise[c] # Pending /\ promise[d] # Pending
        /\ result[c].state = "resolved"

C7_RejectsOnRemoved ==
    [][\A t \in Tabs :
        EmitRemoved(t)
            => \A w \in Waits :
                 (wop[w] = "create" /\ wpc[w] = "waiting" /\ wtab[w] = t)
                    => /\ wresult'[w].state = "rejected"
                       /\ wresult'[w].error.kind = "removed"]_vars

\* C8: when onReplaced names the tab reloadAndWait waits for as the replaced tab,
\* before it has completed, reloadAndWait rejects with a 'replaced' error.
\* Refuted: nothing listens to onReplaced and the wait stays pending.
C8_RejectsOnReplaced ==
    [][\A new \in Tabs, old \in Tabs :
        EmitReplaced(new, old)
            => \A w \in Waits :
                 (wop[w] = "reload" /\ wpc[w] = "waiting" /\ wtab[w] = old)
                    => /\ wresult'[w].state = "rejected"
                       /\ wresult'[w].error.kind = "replaced"]_vars

\* C9: createAndWait and reloadAndWait reject with a timeout error when no
\* completion, removal or replacement event of their tab arrives in time: a wait
\* whose tab is neither removed nor replaced does not stay pending for ever.
\* Refuted: there is no timer, and a wait whose tab never completes never settles.
C9_WaitTimesOut ==
    \A w \in Waits :
        (wpc[w] = "waiting")
            ~> \/ wresult[w] # NotSettled
               \/ (wtab[w] \in Tabs /\ tabState[wtab[w]] \in {"removed", "replaced"})

\* C11: when chrome.tabs.executeScript fails, executeAsyncFunction rejects at once
\* with that failure, and the onMessage listener registered for the call before
\* the injection is removed: no listener of the failed call remains registered.
\* Refuted: the await at line 230 throws past the listener added at line 227.
C11_InjectFailureRemovesListener ==
    \A c \in Calls :
        script[c] = "failed"
            => /\ result[c] = Rejected([kind |-> "inject"])
               /\ c \notin listeners

\* C12: once a call has settled through the race, on the envelope it received (the
\* code arms no timer, so this is the only way the race ends), no handle made for
\* the call is still registered: the handles of such settled calls are empty.
C12_SettledCallsHoldNoHandle ==
    \A c \in Calls : SettledByMessage(c) => Handles(c) = {}

\* a call settled on its message while another call still waits with its listener
C12_Witness ==
    \E c \in Calls, d \in Calls :
        /\ SettledByMessage(c)
        /\ result[c] # NotSettled
        /\ Handles(d) = {"onMessage"}

\* C13: for every lifecycle wait exactly one of the transitions out of Pending (to
\* Completed, Destroyed, Superseded or TimedOut) ever fires, and after it has fired
\* the wait's listeners are released. Over a finite run: a settled wait holds no
\* listener and never changes its outcome, and the removal or the replacement of
\* the awaited tab fires the wait's transition and releases its listener.
\* Refuted: only the transition to Completed exists; a wait whose tab is removed
\* or replaced stays pending with its onUpdated listener registered.
C13_OneTransitionPerWait ==
    /\ [](\A w \in Waits : wresult[w] # NotSettled => w \notin updListeners)
    /\ [][\A w \in Waits : wresult[w] # NotSettled => wresult'[w] = wresult[w]]_vars
    /\ [][\A t \in Tabs :
            (EmitRemoved(t) \/ \E new \in Tabs : EmitReplaced(new, t))
                => \A w \in Waits :
                     (wpc[w] = "waiting" /\ wtab[w] = t)
                        => /\ wresult'[w] # NotSettled
                           /\ w \notin updListeners']_vars

\* C14: when chrome.tabs.create or chrome.tabs.reload itself fails, the operation
\* rejects with that failure and the wait is never started: no onUpdated listener
\* is registered for that call, then or later.
C14_PrimitiveFailureStartsNoWait ==
    /\ [][\A w \in Waits :
            PrimitiveFail(w)
                => /\ wresult'[w] = Rejected([kind |-> wop[w]])
                   /\ w \notin updListeners']_vars
    /\ [](\A w \in Waits :
            wresult[w].state = "rejected"
                => /\ wresult[w].error.kind = wop[w]
                   /\ wpc[w] = "done"
                   /\ w \notin updListeners)

\* a reloadAndWait whose reload failed, while another wait has its listener registered
C14_Witness ==
    \E w \in Waits, v \in Waits :
        /\ wop[w] = "reload"
        /\ wresult[w] = Rejected([kind |-> "reload"])
        /\ v \in updListeners

\* ------------------------------------------------------------ promisify: claims
\* C15: a promisified call rejects with chrome.runtime.lastError when it is set at
\* the time the callback runs, rejects with the thrown value when the wrapped
\* function throws, and otherwise resolves with the callback's result; the first
\* of these to happen in a call decides.
C15_PromisifiedOutcome ==
    \A k \in PCalls :
        LET e == pfirst[k]
        IN  CASE e.kind = "none" -> pprom[k] = NotSettled
              [] e.kind = "throw" -> pprom[k] = Rejected(e.err)
              [] e.kind = "callback" /\ Truthy(e.lastError) -> pprom[k] = Rejected(e.lastError)
              [] OTHER -> /\ pprom[k].state = "resolved"
                          /\ Len(e.cbArgs) = 0 => pprom[k].value = Undefined
                          /\ Len(e.cbArgs) = 1 => pprom[k].value = e.cbArgs[1]

\* one call rejected with lastError by a callback that also carried a parameter,
\* another rejected with what the wrapped function threw
C15_Witness ==
    \E k \in PCalls, j \in PCalls :
        /\ pfirst[k].kind = "callback"
        /\ Truthy(pfirst[k].lastError)
        /\ Len(pfirst[k].cbArgs) = 1
        /\ pprom[k].state = "rejected"
        /\ pfirst[j].kind = "throw"
        /\ pprom[j] = Rejected(pfirst[j].err)

\* the call was settled by a successful callback with several parameters
MultiResolved(k) ==
    /\ pfirst[k].kind = "callback"
    /\ ~Truthy(pfirst[k].lastError)
    /\ Len(pfirst[k].cbArgs) > 1

\* C16: when the host invokes the callback with several parameters, the promise
\* resolves with a combined value from which every parameter can be recovered:
\* two calls that resolve with the same value were given the same parameters.
\* Refuted: resolve(...cbArgs) keeps the first parameter and drops the others.
C16_EveryParameterRecoverable ==
    \A k \in PCalls, j \in PCalls :
        (MultiResolved(k) /\ MultiResolved(j))
            => /\ pprom[k].state = "resolved"
               /\ pprom[k] = pprom[j] => pfirst[k].cbArgs = pfirst[j].cbArgs

\* ------------------------------------------------------------ the correlation id: claims
\* the call has been made and has not settled
Outstanding(c) == pc[c] \in {"injecting", "awaitMessage"}

\* C19: at most one registered onMessage listener waits on any given token: two
\* outstanding calls never hold the same asyncFuncID.
\* Refuted: the id is a bare 16-bit random draw and nothing checks it against the
\* ids in use.
C19_TokensDistinct ==
    \A c \in Calls, d \in Calls :
        (c # d /\ ((c \in listeners /\ d \in listeners) \/ (Outstanding(c) /\ Outstanding(d))))
            => id[c] # id[d]

\* ------------------------------------------------------------ the onMessage listener: claims
\* C17: in the correlation listener the removal of the listener comes before the
\* resolution of the promise: in every state, also between two statements of the
\* listener, a call whose promise is settled has no listener registered.
C17_RemovedBeforeResolved ==
    \A c \in Calls : promise[c] # Pending => c \notin listeners

\* the listener of a call has removed itself and is about to resolve the promise
C17_Witness ==
    \E c \in Calls :
        /\ lpc[c] > 0
        /\ ListenerBody[lpc[c]] = "resolve"
        /\ c \notin listeners
        /\ promise[c] = Pending

\* the message is not meant for the listener waiting on token: it is null or
\* undefined, or has no asyncFuncID, or has another one
Unrelated(m, token) == m.t \in {"null", "undefined"} \/ m.asyncFuncID # token

\* C18: a message that is null or undefined, has no asyncFuncID, or has a different
\* asyncFuncID leaves the listener registered and its promise pending, however many
\* such messages are dispatched and in whatever order: the listener does not enter
\* its matched branch for it, and once it has returned it is still registered
\* with its promise still pending.
C18_UnrelatedMessageIgnored ==
    dispatching # NoRequest
        => \A c \in Calls :
             Unrelated(dispatching.msg, id[c])
                => /\ lpc[c] = 0
                   /\ c \in invoked => (c \in listeners /\ promise[c] = Pending)

\* a call awaiting its message whose listener has just let a foreign id pass
C18_Witness ==
    \E c \in invoked :
        /\ dispatching.msg.t = "object"
        /\ dispatching.msg.asyncFuncID = "ffff"
        /\ pc[c] = "awaitMessage"
        /\ c \in listeners
        /\ promise[c] = Pending

\* ------------------------------------------------------------ the injected wrapper: claims
\* C20: once the injected wrapper has started, it calls chrome.runtime.sendMessage
\* exactly once, as its last action, whether the unit of work resolves, rejects,
\* throws or returns nothing: the wrapper of no call ends having sent no message,
\* or two.
\* Refuted for the wrapper without a finally block: a unit of work that throws
\* null makes its catch block throw, and the wrapper ends without sending.
C20_WrapperSendsExactlyOnce ==
    \A c \in PollCalls :
        /\ qsent[c] <= 1
        /\ qscript[c] = "finished" => qsent[c] = 1

\* ------------------------------------------------------------ executeAsyncFunction: order of the steps
\* C21: executeAsyncFunction registers the listener for its id before it invokes
\* chrome.tabs.executeScript, so a message delivered at any point after the
\* injection has started, also before the injection is acknowledged, is captured
\* and determines the outcome: from the request of the injection on, the call's
\* listener is registered as long as its promise is pending; a message with the
\* call's id delivered before the acknowledgement resolves the promise; and once
\* the injection is acknowledged the call has settled as that message says.
C21_ListenerBeforeInjection ==
    /\ [](\A c \in Calls :
            (script[c] \in {"requested", "running", "finished"} /\ promise[c] = Pending)
                => c \in listeners)
    /\ [][\A e \in channel :
            DeliverMessage(e)
                => \A c \in Calls :
                     (pc[c] = "injecting" /\ promise[c] = Pending /\ e.msg.asyncFuncID = id[c])
                        => /\ promise'[c] = e
                           /\ pc'[c] = "injecting"]_vars
    /\ [](\A c \in Calls :
            (promise[c] # Pending /\ pc[c] # "injecting" /\ script[c] \in {"running", "finished"})
                => /\ pc[c] = "done"
                   /\ result[c] = Translate(promise[c].msg))

\* the call's own message has been captured while the injection is not yet acknowledged
C21_Witness ==
    \E c \in Calls :
        /\ pc[c] = "injecting"
        /\ promise[c] # Pending
        /\ promise[c].from = c

\* C22: for the message it received, executeAsyncFunction rejects if and only if
\* the message's error field is present, with an error that embeds the remote
\* error's message and stack text; otherwise it resolves with the message's content.
C22_OutcomeFromEnvelope ==
    \A c \in Calls :
        SettledByMessage(c)
            => LET m == promise[c].msg
               IN  /\ result[c].state = "rejected" <=> m.error # Undefined
                   /\ result[c].state = "rejected"
                        => /\ result[c].error.message = m.error.message
                           /\ result[c].error.stack = m.error.stack
                   /\ result[c].state # "rejected" => result[c] = Resolved(m.content)

\* one call rejected on a message with an error, another resolved with a content
C22_Witness ==
    \E c \in Calls, d \in Calls :
        /\ SettledByMessage(c)
        /\ result[c].state = "rejected"
        /\ result[c].error.stack = Str("at page")
        /\ SettledByMessage(d)
        /\ result[d] = Resolved(Num(2))

\* C23: in a polling version, an absent or zero timeout means that the default
\* timeout applies and a positive timeout is used as given, so that every turn of
\* the loop with no message held ends the call with the timeout error exactly when
\* the time since the acknowledgement has reached that timeout: no value of the
\* argument lets the call wait without bound.
C23_DefaultOrVerbatim ==
    [][\A c \in PollCalls :
          (~qmessaged[c] /\ (PollAck(c) \/ PollWake(c)))
              => LET start == IF qpc[c] = "injecting" THEN now ELSE qstart[c]
                     applied == IF qtimeout[c] = 0 THEN DefaultTimeout ELSE qtimeout[c]
                 IN  qresult'[c] = Rejected([kind |-> "timeout"]) <=> now >= start + applied]_vars

\* C26: in the polling versions, a turn of the loop with no message received ends
\* the call with the timeout error exactly when the time since the acknowledgement
\* of the injection has reached the timeout (so the error comes at the first such
\* turn), the timeout being 10000 ms when the argument is left out; in the version
\* with the id a timeout of 0 disables the test and every such turn polls on.
C26_TimeoutAtFirstPollAfterDeadline ==
    /\ [][\A c \in PollCalls :
            (qpc[c] = "idle" /\ qpc'[c] = "injecting")
                => \A a \in Actions, r \in Tokens :
                      PollCall(c, a, NoTimeout, r) => qtimeout'[c] = 10000]_vars
    /\ [][\A c \in PollCalls :
            (~qmessaged[c] /\ (PollAck(c) \/ PollWake(c)))
                => LET start == IF qpc[c] = "injecting" THEN now ELSE qstart[c]
                       disabled == qversion = "id" /\ qtimeout[c] = 0
                   IN  /\ qresult'[c] = Rejected([kind |-> "timeout"])
                            <=> (~disabled /\ now >= start + qtimeout[c])
                       /\ qresult'[c] # Rejected([kind |-> "timeout"])
                            => /\ qpc'[c] = "polling"
                               /\ qresult'[c] = NotSettled]_vars

C26_Witness ==
    /\ qversion = "id"
    /\ \E c, d \in PollCalls :
          /\ qresult[c] = Rejected([kind |-> "timeout"])
          /\ qpc[d] = "polling" /\ qtimeout[d] = 0 /\ ~qmessaged[d]
          /\ qwake[d] > DefaultTimeout

\* C24: an onUpdated event for a tab other than the awaited one, whatever its status,
\* never settles a lifecycle wait and leaves the wait's listener registered, however
\* the events of other tabs and of the awaited tab are interleaved: a step in which
\* a registered listener is released, or its wait resolved or moved on, is never an
\* onUpdated event of another tab.
C24_OtherTabsNeverSettle ==
    [][\A w \in Waits :
          (w \in updListeners
             /\ (w \notin updListeners' \/ wresult'[w] # NotSettled \/ wpc'[w] # "waiting"))
              => \A t \in Tabs \ {wtab[w]}, s \in Statuses : ~EmitUpdated(t, s)]_vars

\* a wait still pending with its listener, after events of its own tab, while
\* another wait has been resolved by the 'complete' event of another tab
C24_Witness ==
    \E w \in Waits, v \in Waits :
        /\ w \in updListeners /\ wpc[w] = "waiting" /\ wresult[w] = NotSettled
        /\ wignored[w]
        /\ wresult[v].state = "resolved"
        /\ wtab[v] # wtab[w]
        /\ tabState[wtab[v]] = "complete"

\* C25: each call invokes chrome.tabs.executeScript at most once: the injection of
\* a call is requested only by the call itself, when none was requested before,
\* and an injection that has failed, or whose script is running or has finished,
\* is never requested again; a call that is over requests none.
C25_InjectsAtMostOnce ==
    /\ [][\A c \in Calls :
            (script'[c] = "requested" /\ script[c] # "requested")
                => /\ script[c] = "none"
                   /\ pc[c] = "idle"]_vars
    /\ [][\A c \in Calls :
            /\ script[c] \in {"failed", "finished"} => script'[c] = script[c]
            /\ script[c] = "running" => script'[c] \in {"running", "finished"}]_vars
    /\ [](\A c \in Calls : script[c] = "failed" => result[c] = Rejected([kind |-> "inject"]))

\* one call over with a failed injection, another over with a remote error
C25_Witness ==
    \E c, d \in Calls :
        /\ script[c] = "failed" /\ pc[c] = "done"
        /\ SettledByMessage(d) /\ result[d].state = "rejected"

\* C27: createAndWait and reloadAndWait cannot miss the completion of the awaited
\* tab: every onUpdated event with status 'complete' of that tab emitted after
\* chrome.tabs.create or chrome.tabs.reload was invoked, the events emitted before
\* the acknowledgement of the primitive is processed included, resolves the
\* operation.
\* Refuted: the listener is added after the acknowledgement only, and a 'complete'
\* event emitted before it is seen by nobody.
C27_CompletionNeverMissed ==
    [][\A w \in Waits :
          (wpc[w] \in {"created", "reloaded", "waiting"} /\ EmitUpdated(wtab[w], "complete"))
              => wresult'[w].state = "resolved"]_vars

\* C28: executeAsyncFunction leaves a details object of the caller unchanged, so
\* that in successive calls given the same details object the code injected is
\* each time the original code inside one wrapper, the one with the call's id.
\* Refuted: setupDetails assigns the wrapped code to the caller's object, and the
\* next call with that object wraps the wrapper of the call before.
C28_DetailsUnchanged ==
    /\ \A o \in DetailsObjects : detailsCode[o] = OriginalCode
    /\ \A i \in DOMAIN injections : injections[i].code = <<injections[i].id>>

\* C29: addAsyncWrappers adds a member named p + 'Async' exactly for each own
\* property p of the API object that is a function and is named in the known list,
\* the member being the promisified p; it adds nothing for other properties, for
\* inherited properties or for known names that are absent, and it leaves every
\* original member of the object unchanged.
C29_AsyncMembersExactlyForKnown ==
    (callbackApi # Null /\ apiCalls > 0)
        => /\ \A b \in BaseNames :
                IF /\ <<b>> \in apiKnown
                   /\ apiOriginal[<<b>>].where = "own"
                   /\ apiOriginal[<<b>>].type = "function"
                THEN callbackApi[AsyncName(<<b>>)] = Promisified(apiOriginal[<<b>>])
                ELSE callbackApi[AsyncName(<<b>>)] = Absent
           /\ \A n \in MemberNames :
                apiOriginal[n] # Absent => callbackApi[n] = apiOriginal[n]

\* an object with an own function wrapped, next to a known inherited function, a
\* known plain value, a known absent name and an own function that is not known
C29_Witness ==
    /\ callbackApi # Null /\ apiCalls > 0
    /\ apiKnown = {<<"get">>, <<"lastError">>}
    /\ callbackApi[<<"get", "Async">>] = Promisified([where |-> "own", type |-> "function"])
    /\ apiOriginal[<<"lastError">>] \in {Absent, [where |-> "own", type |-> "other"],
                                         [where |-> "inherited", type |-> "function"]}
    /\ apiOriginal[<<"connect">>] = [where |-> "own", type |-> "function"]

\* C30: the promise returned by a promisified call settles exactly once, when the
\* first of the callback's invocations and of a throw of the wrapped function
\* happens: it is settled as soon as one of them has happened and not before, and
\* once settled it keeps its outcome through later invocations of the callback and
\* through a throw that comes after the callback ran.
C30_SettlesOnce ==
    /\ [](\A k \in PCalls : pprom[k] = NotSettled <=> pfirst[k] = NoEvent)
    /\ [](\A k \in PCalls : (pevents[k] > 0 \/ ppc[k] = "threw") => pprom[k] # NotSettled)
    /\ [][\A k \in PCalls : pprom[k] # NotSettled => pprom'[k] = pprom[k]]_vars

\* one call resolved by its callback, which the host then invoked again; another
\* whose wrapped function threw after it had run the callback, resolved as well
C30_Witness ==
    \E k \in PCalls, j \in PCalls :
        /\ pevents[k] >= 2 /\ ppc[k] = "called" /\ pprom[k].state = "resolved"
        /\ ppc[j] = "threw" /\ pfirst[j].kind = "callback" /\ pprom[j].state = "resolved"

\* ------------------------------------------------------------ promisifyRuntimeMessage: claims
\* C31: for the runtime message event, promisifyChromeEvent(chrome.runtime.onMessage, id)
\* and promisifyRuntimeMessage(id) are equivalent: given the same id and the same
\* sequence of events, after every step the listener of the one is registered
\* exactly when the listener of the other is, and their promises are both pending
\* or both resolved with the same message.
C31_SameListenerAndPromise ==
    \A p \in Pairs :
        /\ rmListening[p] = ceListening[p]
        /\ rmPromise[p] = cePromise[p]

\* a pair resolved with its message after events that were not for it, its
\* listeners removed, while the other pair still listens after the same events
C31_Witness ==
    \E p, q \in Pairs :
        /\ dispatched = MaxMessages
        /\ rmPromise[p] # Pending /\ rmPromise[p].asyncFuncID = pairId[p]
        /\ ~rmListening[p] /\ ~ceListening[p]
        /\ rmListening[q] /\ ceListening[q] /\ cePromise[q] = Pending

\* ------------------------------------------------------------ polling versions: claims
\* C32: in both polling versions the onMessage listener a call adds is never
\* removed: the registered listeners are those of all the calls that passed setup,
\* the calls that are over (by a message, a remote error, a timeout) included, so
\* that their number grows by one per such call and never shrinks.
C32_ListenersNeverRemoved ==
    /\ [](qlisteners = {c \in PollCalls : qscript[c] # "none"})
    /\ [](\A c \in PollCalls :
            (qpc[c] = "done" /\ qresult[c].state = "rejected"
                /\ qresult[c].error.kind \in {"file", "shape", "TypeError"})
                => c \notin qlisteners)
    /\ [][/\ qlisteners \subseteq qlisteners'
          /\ \A c \in PollCalls :
                (qpc[c] = "idle" /\ qpc'[c] = "injecting")
                    => Cardinality(qlisteners') = Cardinality(qlisteners) + 1]_vars

\* one call over by its timeout, the other over by a remote error, both listeners
\* still registered
C32_Witness ==
    \E c, d \in PollCalls :
        /\ qpc[c] = "done" /\ qresult[c] = Rejected([kind |-> "timeout"])
        /\ qpc[d] = "done" /\ qresult[d].state = "rejected" /\ qresult[d].error.kind = "remote"
        /\ qlisteners = {c, d}

\* C33: in the first polling version, which has no id, the listener of a call takes
\* every message dispatched, whichever script sent it, the last one taken
\* replacing the one before, and the call ends at its next turn with the outcome
\* of the message it then holds; with two calls under way a message sent by the
\* script of one call can therefore settle the other.
C33_FirstVersionTakesAnyMessage ==
    /\ [][qversion = "first"
            => \A e \in qchannel :
                  PollDeliver(e)
                      => \A c \in qlisteners :
                            qpc[c] # "done" => (qmessaged'[c] /\ qmessage'[c] = e.msg)]_vars
    /\ [][qversion = "first"
            => \A c \in PollCalls :
                  (qmessaged[c] /\ qpc[c] \in {"injecting", "polling"} /\ qpc'[c] = "done"
                      /\ qscript'[c] # "failed")
                      => qresult'[c] = PollTranslate(qmessage[c])]_vars

\* a call that has returned a value although its own script has not sent anything
\* yet: the message came from the other call
C33_Witness ==
    \E c, d \in PollCalls :
        /\ qversion = "first"
        /\ qpc[c] = "done" /\ qresult[c].state = "resolved"
        /\ qscript[c] = "running" /\ qsent[c] = 0
        /\ c # d /\ qsent[d] = 1

\* ------------------------------------------------------------ the generation of the id: claims
\* the string of exactly 4 hexadecimal digits that writes k, from '0000' to 'ffff'
FourHexDigits(k) ==
    <<HexDigit(k \div 4096), HexDigit((k \div 256) % 16), HexDigit((k \div 16) % 16),
      HexDigit(k % 16)>>

\* C34: the id generated, floor((1 + r) * 0x10000).toString(16).substring(1) for r
\* in [0, 1), is always a string of exactly 4 hexadecimal digits, and every value
\* from '0000' to 'ffff' is generated for some r (for r = k / 0x10000 exactly, the
\* 4 digits of k), so that there are exactly 65536 ids.
C34_FourHexDigits ==
    generated # <<>>
        => /\ Len(generated) = 4
           /\ \A i \in 1..4 : \E d \in 0..15 : generated[i] = HexDigit(d)
           /\ random % (Pow2(FractionBits + 1) \div 65536) = 0
                => generated = FourHexDigits(random \div (Pow2(FractionBits + 1) \div 65536))

\* the id with leading zeros generated from a small r
C34_Witness ==
    /\ generated = <<"0", "0", "0", "f">>
    /\ random = 15 * (Pow2(FractionBits + 1) \div 65536)

====
